---- MODULE Spec2Model ----
(***************************************************************************)
(* A model of find_originals.py: the original-file reconciliation engine.  *)
(* Strings are TLA+ strings; a Python str method is an operator over them, *)
(* computed character by character as the method computes it.              *)
(*                                                                         *)
(* Specifications:                                                         *)
(*   SpecMatch  build_basename_map + matches_basename on bounded inputs    *)
(*   SpecDate   is_dir_in_date_range on bounded directory names and bounds *)
(*   SpecDest   get_unique_dest_path on bounded destination directories    *)
(*   SpecScan   find_originals over bounded archive trees                  *)
(*   SpecRescan find_originals twice over one tree and one reference set   *)
(*   Spec       one run of main, from argument validation to the summary   *)
(*   SpecMove   move_jpegs.py: move_jpegs_from_negatives on bounded folders *)
(***************************************************************************)
EXTENDS Integers, Sequences, FiniteSets, TLC

VARIABLES
    \* --- SpecMatch: one call of matches_basename
    m_pc,            \* "idle" | "built" | "matched"
    m_filenames,     \* the reference names, in the set's iteration order
    m_bases,         \* search_bases: the dict, as <<key, value>> pairs in insertion order
    m_file_base,     \* the candidate stem handed to matches_basename
    m_result,        \* its return value
    \* --- SpecDate: one call of is_dir_in_date_range
    d_pc,            \* "idle" | "ready" | "decided"
    d_dirname,       \* the top-level directory name
    d_start,         \* date_start, NoDate when not supplied
    d_end,           \* date_end, NoDate when not supplied
    d_result,        \* the return value
    \* --- SpecDest: one call of get_unique_dest_path
    u_pc,            \* "idle" | "ready" | "resolved"
    u_existing,      \* the names that exist in dest_dir
    u_filename,      \* the requested filename
    u_result,        \* <<new_filename, was_renamed>>
    \* --- SpecScan: one call of find_originals
    s_pc,            \* "idle" | "ready" | "scanned"
    s_files,         \* the files of the archive: <<directory number, filename>>
    s_thumbs,        \* the reference names, in the set's iteration order
    s_start,         \* date_start, NoDate when not supplied
    s_end,           \* date_end, NoDate when not supplied
    s_found,         \* the returned dict, as <<reference, paths>> pairs in insertion order
    \* --- SpecRescan: two calls of find_originals, in two processes, on one input
    r_pc,            \* "idle" | "ready" | "first" | "second"
    r_files,         \* the files of the archive: <<directory number, filename>>
    r_thumbs,        \* the reference names, in the first process's iteration order
    r_thumbs2,       \* the same names, in the second process's iteration order
    r_found,         \* what the first call returned
    r_found2,        \* what the second call returned
    \* --- SpecMove: one call of move_jpegs.py's move_jpegs_from_negatives
    v_pc,            \* "idle" | "ready" | "deleting" | "moving" | "returned" | "raised"
    v_DRY_RUN,       \* the module's DRY_RUN
    v_negatives_isdir,   \* os.path.isdir(negatives_dir)
    v_root,          \* the entries of root_dir other than negatives: <<name, "file",
                     \* where the file came from>> or <<name, "dir", names inside>>
    v_negatives,     \* the entries of negatives_dir, alike
    v_negatives_filenames,  \* the local negatives_filenames
    v_to_delete,     \* sorted(files_to_delete), what the loop has yet to visit
    v_to_move,       \* the names of negatives_jpegs the loop has yet to visit
    v_result,        \* the return value, None until the call returns
    \* --- Spec: one run of main
    pc,              \* "validate" | "dates" | "thumbs" | "scan" | "assemble" | "pool"
                     \* | "summary" | "done" (main returned)
                     \* | "unwind" | "fault" (an exception left main)
    exit_code,       \* the exit status: what main returns, 1 after an uncaught
                     \* exception; Running until then
    args,            \* the parsed command line
    fs,              \* the filesystem the run reads: which directories exist, the
                     \* thumbs listing, the archive files and their .xmp sidecars
    dest,            \* dest_dir: <<name, content>> per file, content its source path
    main_date_start, \* main's date_start: parsed --date-start
    main_date_end,   \* main's date_end: parsed --date-end
    thumb_filenames, \* the reference names, in the set's iteration order
    found_originals, \* find_originals' dict
    work,            \* the original paths the assembly loop has yet to visit
    copy_tasks,      \* <<src, dest>> per task, in list order
    renamed_files,   \* <<actual_filename, dest_filename>> per rename
    submitted,       \* how many tasks executor.submit has taken
    task_state,      \* per task: "pending" | "running" | "done" | "raised"
    copied_count,    \* the results as_completed has handed to main
    missing          \* the missing list the summary printed

matchVars == <<m_pc, m_filenames, m_bases, m_file_base, m_result>>
dateVars == <<d_pc, d_dirname, d_start, d_end, d_result>>
destVars == <<u_pc, u_existing, u_filename, u_result>>

scanVars == <<s_pc, s_files, s_thumbs, s_start, s_end, s_found>>

rescanVars == <<r_pc, r_files, r_thumbs, r_thumbs2, r_found, r_found2>>

mainVars == <<pc, exit_code, args, fs, dest, main_date_start, main_date_end,
              thumb_filenames,
              found_originals, work, copy_tasks, renamed_files, submitted, task_state,
              copied_count, missing>>

\* what a run of main leaves alone
moveVars == <<v_pc, v_DRY_RUN, v_negatives_isdir, v_root, v_negatives,
              v_negatives_filenames, v_to_delete, v_to_move, v_result>>

others == <<matchVars, dateVars, destVars, scanVars, rescanVars, moveVars>>

vars == <<matchVars, dateVars, destVars, scanVars, rescanVars, mainVars, moveVars>>

-----------------------------------------------------------------------------
(* Bounds of the model *)

\* reference names per index in SpecMatch
MaxRefs == 2
\* pieces a candidate stem is assembled from in SpecMatch
MaxPieces == 3
\* pieces a directory name is assembled from in SpecDate
MaxDirPieces == 3
\* numbered variants stem_1.ext .. stem_k.ext a destination directory may hold in SpecDest
MaxSuffix == 2
\* files in the archive tree in SpecScan
MaxScanFiles == 2
\* files in the archive tree in Spec
MaxMainFiles == 2

\* archive files that have an .xmp sidecar in Spec
MaxSidecars == 1
\* files in the archive tree in SpecRescan
MaxRescanFiles == 2
\* reference names in SpecRescan
MaxRescanRefs == 2
\* entries of the root folder in SpecMove
MaxRootEntries == 2
\* entries of the negatives folder in SpecMove
MaxNegativesEntries == 2

-----------------------------------------------------------------------------
(* Python str primitives *)

\* Python's None for a filename result; also what `if name:` treats as absent
None == ""

\* s[i-1:i]
Ch(s, i) == SubSeq(s, i, i)

UpperChars == "ABCDEFGHIJKLMNOPQRSTUVWXYZ"
LowerChars == "abcdefghijklmnopqrstuvwxyz"

UpperSet == {Ch(UpperChars, i) : i \in 1..26}

LowerMap == [c \in UpperSet |-> Ch(LowerChars, CHOOSE i \in 1..26 : Ch(UpperChars, i) = c)]

\* str.lower() of one character
LowerChar(c) == IF c \in UpperSet THEN LowerMap[c] ELSE c

RECURSIVE ToLower(_)
\* str.lower()
ToLower(s) == IF s = "" THEN "" ELSE LowerChar(Head(s)) \o ToLower(Tail(s))

\* str.startswith(p)
StartsWith(s, p) == Len(p) <= Len(s) /\ SubSeq(s, 1, Len(p)) = p

\* `sub in s`
Contains(s, sub) ==
    \E i \in 1..(Len(s) - Len(sub) + 1) : SubSeq(s, i, i + Len(sub) - 1) = sub

\* s.find(c) + 1 for a single character c: 0 when absent
Find(s, c) ==
    IF \E i \in 1..Len(s) : Ch(s, i) = c
    THEN CHOOSE i \in 1..Len(s) : Ch(s, i) = c /\ \A j \in 1..(i - 1) : Ch(s, j) # c
    ELSE 0

\* s.rfind(c) + 1 for a single character c: 0 when absent
RFind(s, c) ==
    IF \E i \in 1..Len(s) : Ch(s, i) = c
    THEN CHOOSE i \in 1..Len(s) : Ch(s, i) = c /\ \A j \in (i + 1)..Len(s) : Ch(s, j) # c
    ELSE 0

\* os.path.splitext(p): <<root, ext>>; the extension starts at the last dot of the
\* last path component, unless only dots precede it there
splitext(p) ==
    LET sepIndex == RFind(p, "/")
        dotIndex == RFind(p, ".")
    IN  IF /\ dotIndex > sepIndex
           /\ \E j \in (sepIndex + 1)..(dotIndex - 1) : Ch(p, j) # "."
        THEN <<SubSeq(p, 1, dotIndex - 1), SubSeq(p, dotIndex, Len(p))>>
        ELSE <<p, "">>

\* the sequences without repetition over S, of length at most n
RECURSIVE Orders(_, _)
Orders(S, n) ==
    IF n = 0 THEN {<<>>}
    ELSE LET shorter == Orders(S, n - 1)
         IN  shorter \cup
             {Append(q, x) : <<q, x>> \in
                 {<<q, x>> \in shorter \X S :
                     Len(q) = n - 1 /\ \A i \in 1..Len(q) : q[i] # x}}

-----------------------------------------------------------------------------
(* DateRangeFilter *)

\* Python's None for a date; a parsed date is the number yyyymmdd, which orders
\* as datetime orders
NoDate == 0

Digits == "0123456789"

IsDigit(c) == \E i \in 1..10 : Ch(Digits, i) = c

DigitVal(c) == (CHOOSE i \in 1..10 : Ch(Digits, i) = c) - 1

\* calendar.monthrange: the days of month m of year y
DaysIn(y, m) ==
    IF m \in {4, 6, 9, 11} THEN 30
    ELSE IF m # 2 THEN 31
    ELSE IF (y % 4 = 0 /\ y % 100 # 0) \/ y % 400 = 0 THEN 29
    ELSE 28

\* strptime's %m: 1[0-2]|0[1-9]|[1-9]
MonthField(f) ==
    \/ Len(f) = 1 /\ IsDigit(f) /\ f # "0"
    \/ Len(f) = 2 /\ Ch(f, 1) = "1" /\ Ch(f, 2) \in {"0", "1", "2"}
    \/ Len(f) = 2 /\ Ch(f, 1) = "0" /\ IsDigit(Ch(f, 2)) /\ Ch(f, 2) # "0"

\* strptime's %d: 3[01]|[12]\d|0[1-9]|[1-9]| [1-9]
DayField(f) ==
    \/ Len(f) = 1 /\ IsDigit(f) /\ f # "0"
    \/ Len(f) = 2 /\ Ch(f, 1) = "3" /\ Ch(f, 2) \in {"0", "1"}
    \/ Len(f) = 2 /\ Ch(f, 1) \in {"1", "2"} /\ IsDigit(Ch(f, 2))
    \/ Len(f) = 2 /\ Ch(f, 1) \in {"0", " "} /\ IsDigit(Ch(f, 2)) /\ Ch(f, 2) # "0"

\* int() of a field of one or two characters, a leading space or zero ignored
FieldVal(f) ==
    IF Len(f) = 1 THEN DigitVal(f)
    ELSE (IF Ch(f, 1) = " " THEN 0 ELSE 10 * DigitVal(Ch(f, 1))) + DigitVal(Ch(f, 2))

\* parse_date(date_str): datetime.strptime(date_str, "%Y-%m-%d"), None on ValueError.
\* The whole string must be four digits, a dash, a month field, a dash and a
\* day field, and name a day of the calendar.
parse_date(date_str) ==
    LET n == Len(date_str)
        \* the end of the month field: the dash that follows it
        shapes == {ml \in {1, 2} :
                      /\ n >= 7 + ml
                      /\ n <= 8 + ml
                      /\ \A i \in 1..4 : IsDigit(Ch(date_str, i))
                      /\ Ch(date_str, 5) = "-"
                      /\ MonthField(SubSeq(date_str, 6, 5 + ml))
                      /\ Ch(date_str, 6 + ml) = "-"
                      /\ DayField(SubSeq(date_str, 7 + ml, n))}
    IN  IF shapes = {} THEN NoDate
        ELSE LET ml == CHOOSE x \in shapes : TRUE
                 y == 1000 * DigitVal(Ch(date_str, 1)) + 100 * DigitVal(Ch(date_str, 2))
                        + 10 * DigitVal(Ch(date_str, 3)) + DigitVal(Ch(date_str, 4))
                 m == FieldVal(SubSeq(date_str, 6, 5 + ml))
                 d == FieldVal(SubSeq(date_str, 7 + ml, n))
             IN  IF y >= 1 /\ d <= DaysIn(y, m) THEN y * 10000 + m * 100 + d ELSE NoDate

RECURSIVE RStrip(_, _)
\* str.rstrip(chars)
RStrip(s, chars) ==
    IF s # "" /\ Ch(s, Len(s)) \in chars THEN RStrip(SubSeq(s, 1, Len(s) - 1), chars) ELSE s

\* dirname.split(" ")[0]
FirstPart(dirname) ==
    IF Find(dirname, " ") = 0 THEN dirname ELSE SubSeq(dirname, 1, Find(dirname, " ") - 1)

\* the fallback alone left out: only the leading 10 characters are tried
extract_date_no_fallback(dirname) ==
    IF Len(dirname) >= 10 THEN parse_date(SubSeq(dirname, 1, 10)) ELSE NoDate

extract_date_from_dirname(dirname) ==
    IF Len(dirname) >= 10 /\ parse_date(SubSeq(dirname, 1, 10)) # NoDate
    THEN parse_date(SubSeq(dirname, 1, 10))
    ELSE parse_date(RStrip(FirstPart(dirname), {",", "-", "_"}))

\* the bounds taken as exclusive
is_dir_in_date_range_exclusive(dirname, date_start, date_end) ==
    LET dir_date == extract_date_from_dirname(dirname)
    IN  IF dir_date = NoDate THEN FALSE
        ELSE IF date_start # NoDate /\ dir_date <= date_start THEN FALSE
        ELSE IF date_end # NoDate /\ dir_date >= date_end THEN FALSE
        ELSE TRUE

is_dir_in_date_range(dirname, date_start, date_end) ==
    LET dir_date == extract_date_from_dirname(dirname)
    IN  IF dir_date = NoDate THEN FALSE
        ELSE IF date_start # NoDate /\ dir_date < date_start THEN FALSE
        ELSE IF date_end # NoDate /\ dir_date > date_end THEN FALSE
        ELSE TRUE

-----------------------------------------------------------------------------
(* ConflictResolver *)

RECURSIVE IntToStr(_)
\* str(n) for n >= 0, as the f-string formats the counter
IntToStr(n) ==
    IF n < 10 THEN Ch(Digits, n + 1) ELSE IntToStr(n \div 10) \o Ch(Digits, (n % 10) + 1)

\* os.path.exists(os.path.join(dest_dir, name)), dest_dir given by the names in it
Exists(existing, name) == name \in existing

\* the first numbered name returned without a look at the directory
ProbeUnchecked(existing, base, ext, counter) ==
    <<base \o "_" \o IntToStr(counter) \o ext, TRUE>>

RECURSIVE Probe(_, _, _, _)
\* the while loop of get_unique_dest_path
Probe(existing, base, ext, counter) ==
    LET new_filename == base \o "_" \o IntToStr(counter) \o ext
    IN  IF ~Exists(existing, new_filename) THEN <<new_filename, TRUE>>
        ELSE Probe(existing, base, ext, counter + 1)

\* the numbered name returned without its was_renamed flag
get_unique_dest_path_unflagged(existing, filename) ==
    IF ~Exists(existing, filename) THEN <<filename, FALSE>>
    ELSE <<Probe(existing, splitext(filename)[1], splitext(filename)[2], 1)[1], FALSE>>

\* get_unique_dest_path(dest_dir, filename): <<new_filename, was_renamed>>
get_unique_dest_path(existing, filename) ==
    LET base == splitext(filename)[1]
        ext == splitext(filename)[2]
    IN  IF ~Exists(existing, filename) THEN <<filename, FALSE>>
        ELSE Probe(existing, base, ext, 1)

-----------------------------------------------------------------------------
(* BasenameIndex and BasenameMatcher *)

VALID_EXTENSIONS == {".jpeg", ".jpg", ".JPEG", ".JPG"}

RAW_EXTENSIONS == {".cr3", ".cr2", ".nef", ".arw", ".raf", ".orf", ".dng", ".rw2"}

\* a key already present keeps its first value
DictPutKeepFirst(d, k, v) ==
    IF \E i \in 1..Len(d) : d[i][1] = k THEN d ELSE Append(d, <<k, v>>)

\* d[k] = v on a dict kept as <<key, value>> pairs in insertion order: an
\* existing key keeps its place and takes the new value
DictPut(d, k, v) ==
    IF \E i \in 1..Len(d) : d[i][1] = k
    THEN [i \in 1..Len(d) |-> IF d[i][1] = k THEN <<k, v>> ELSE d[i]]
    ELSE Append(d, <<k, v>>)

RECURSIVE BuildLoop(_, _)
BuildLoop(filenames, basenames_to_find) ==
    IF filenames = <<>> THEN basenames_to_find
    ELSE LET filename == Head(filenames)
             base == splitext(filename)[1]
             base_lower == ToLower(base)
         IN  BuildLoop(Tail(filenames), DictPut(basenames_to_find, base_lower, filename))

\* build_basename_map(filenames); `filenames` is the set in its iteration order
build_basename_map(filenames) == BuildLoop(filenames, <<>>)

\* the first dot-delimited part of the text after the remainder's leading dot
ExtPart(remainder) ==
    LET rest == SubSeq(remainder, 2, Len(remainder))
    IN  IF Contains(rest, ".") THEN SubSeq(rest, 1, Find(rest, ".") - 1) ELSE rest

\* lines 160-163: the remainder is a dot followed by a RAW extension
RawRemainder(remainder) ==
    \/ ("." \o ToLower(ExtPart(remainder))) \in RAW_EXTENSIONS
    \/ ("." \o ToLower(SubSeq(remainder, 2, Len(remainder)))) \in RAW_EXTENSIONS

\* a dot accepted as one more separator
RemainderAllowedAnyDot(remainder) ==
    Ch(remainder, 1) \in {" ", "-", "_", "."}

\* lines 155-163: which first characters of a non-empty remainder let the key match
RemainderAllowed(remainder) ==
    \/ Ch(remainder, 1) \in {" ", "-", "_"}
    \/ Ch(remainder, 1) = "." /\ RawRemainder(remainder)

\* a bare prefix test, with no look at what follows the key
KeyMatchesPrefixOnly(file_base_lower, base_lower) ==
    StartsWith(file_base_lower, base_lower)

\* lines 142-166: does this key take part in the selection
KeyMatches(file_base_lower, base_lower) ==
    \/ file_base_lower = base_lower
    \/ /\ StartsWith(file_base_lower, base_lower)
       /\ Len(file_base_lower) > Len(base_lower)
       /\ RemainderAllowed(SubSeq(file_base_lower, Len(base_lower) + 1, Len(file_base_lower)))

\* the length comparison left out: the key iterated last wins
BetterLastWins(base_lower, best_match_len) == TRUE

\* lines 145, 156, 164: a matching key replaces the best one so far
Better(base_lower, best_match_len) == Len(base_lower) > best_match_len

RECURSIVE MatchLoop(_, _, _, _, _)
\* the for loop of matches_basename, from dict position i on
MatchLoop(file_base_lower, search_bases, i, best_match, best_match_len) ==
    IF i > Len(search_bases) THEN best_match
    ELSE LET base_lower == search_bases[i][1]
             original_filename == search_bases[i][2]
         IN  IF KeyMatches(file_base_lower, base_lower) /\ Better(base_lower, best_match_len)
             THEN MatchLoop(file_base_lower, search_bases, i + 1,
                            original_filename, Len(base_lower))
             ELSE MatchLoop(file_base_lower, search_bases, i + 1,
                            best_match, best_match_len)

matches_basename(file_base, search_bases) ==
    MatchLoop(ToLower(file_base), search_bases, 1, None, 0)

-----------------------------------------------------------------------------
(* TreeScanner.  The archive is a skeleton of directories, each a sequence   *)
(* of path segments below originals_dir listed in os.walk's top-down order,  *)
(* and a set of files <<directory number, filename>>; a directory lists its  *)
(* files in the order of FileOrder.                                          *)

\* os.path.abspath(args.originals): no trailing separator
originals_dir == "/arch"

\* os.path.join(a, b) for a relative b and an a that does not end in a separator
join(a, b) == a \o "/" \o b

RECURSIVE JoinSegs(_, _)
\* the path of the directory `segs` below `top`
JoinSegs(top, segs) ==
    IF segs = <<>> THEN top ELSE JoinSegs(join(top, Head(segs)), Tail(segs))

IsPrefix(p, q) == Len(p) <= Len(q) /\ SubSeq(q, 1, Len(p)) = p

\* the listing order of filenames within a directory
FileOrder == <<"IMG_0002.jpg", "IMG_0002 1.JPG", "IMG_0002.CR3.Jpg", "IMG_0002.png",
               "other.jpeg">>

\* the files of directory number n, in listing order
FilesIn(files, n) == SelectSeq(FileOrder, LAMBDA f : <<n, f>> \in files)

\* what os.walk(originals_dir) yields: one <<segments, filenames>> per directory
WalkOf(skeleton, files) == [n \in 1..Len(skeleton) |-> <<skeleton[n], FilesIn(files, n)>>]

\* get_filtered_directories: the top-level directories whose name passes the
\* date filter, in listing order
get_filtered_directories(walk, date_start, date_end) ==
    LET top == SelectSeq(walk, LAMBDA r : Len(r[1]) = 1)
        kept == SelectSeq(top, LAMBDA r : is_dir_in_date_range(r[1][1], date_start, date_end))
    IN  [i \in 1..Len(kept) |-> kept[i][1]]

\* the whole root walked, bounds or none
filtered_dirs_whole_root(walk, date_start, date_end) == << <<>> >>

\* every run filtered by date, bounds or none
filtered_dirs_always_filtered(walk, date_start, date_end) ==
    get_filtered_directories(walk, date_start, date_end)

\* lines 214-217: the directories handed to os.walk
filtered_dirs(walk, date_start, date_end) ==
    IF date_start = NoDate /\ date_end = NoDate
    THEN << <<>> >>
    ELSE get_filtered_directories(walk, date_start, date_end)

\* the test made case-insensitive by lowercasing the extension too
ExtAcceptedAnyCase(ext) == ToLower(ext) \in VALID_EXTENSIONS

\* line 238
ExtAccepted(ext) == ext \in VALID_EXTENSIONS

\* line 228: the walked directory is skipped
SkippedRoot(root) == Contains(ToLower(root), "photobook/")

\* found[ref] = [path]: a later path of the reference replaces the earlier ones
FoundAppendReplacing(found, ref, path) ==
    IF \E i \in 1..Len(found) : found[i][1] = ref
    THEN [i \in 1..Len(found) |-> IF found[i][1] = ref THEN <<ref, <<path>>>> ELSE found[i]]
    ELSE Append(found, <<ref, <<path>>>>)

\* found[ref].append(path), the key created at its first path
FoundAppend(found, ref, path) ==
    IF \E i \in 1..Len(found) : found[i][1] = ref
    THEN [i \in 1..Len(found) |->
             IF found[i][1] = ref THEN <<ref, Append(found[i][2], path)>> ELSE found[i]]
    ELSE Append(found, <<ref, <<path>>>>)

RECURSIVE ScanFilesLoop(_, _, _, _)
\* lines 231-246: the files of one walked directory
ScanFilesLoop(root, files, basenames_to_find, found) ==
    IF files = <<>> THEN found
    ELSE LET filename == Head(files)
             base == splitext(filename)[1]
             ext == splitext(filename)[2]
             original_thumb_name ==
                 IF ExtAccepted(ext) THEN matches_basename(base, basenames_to_find) ELSE None
         IN  ScanFilesLoop(root, Tail(files), basenames_to_find,
                 IF original_thumb_name # None
                 THEN FoundAppend(found, original_thumb_name, join(root, filename))
                 ELSE found)

RECURSIVE WalkLoop(_, _, _, _)
\* lines 226-246: os.walk(dir_path) over the records at or below dir_path
WalkLoop(dir_segs, walk, basenames_to_find, found) ==
    IF walk = <<>> THEN found
    ELSE LET root == JoinSegs(originals_dir, Head(walk)[1])
         IN  WalkLoop(dir_segs, Tail(walk), basenames_to_find,
                 IF ~IsPrefix(dir_segs, Head(walk)[1]) \/ SkippedRoot(root)
                 THEN found
                 ELSE ScanFilesLoop(root, Head(walk)[2], basenames_to_find, found))

RECURSIVE DirsLoop(_, _, _, _)
\* line 225: for dir_path in filtered_dirs
DirsLoop(dirs, walk, basenames_to_find, found) ==
    IF dirs = <<>> THEN found
    ELSE DirsLoop(Tail(dirs), walk, basenames_to_find,
                  WalkLoop(Head(dirs), walk, basenames_to_find, found))

\* find_originals(originals_dir, filenames, date_start, date_end, verbose)
find_originals(walk, filenames, date_start, date_end) ==
    DirsLoop(filtered_dirs(walk, date_start, date_end), walk,
             build_basename_map(filenames), <<>>)

-----------------------------------------------------------------------------
(* SpecMatch: the index is built from a bounded reference set, then one     *)
(* candidate stem is matched against it                                     *)

DateIdle ==
    /\ d_pc = "idle" /\ d_dirname = "" /\ d_start = NoDate /\ d_end = NoDate
    /\ d_result = FALSE

DestIdle ==
    /\ u_pc = "idle" /\ u_existing = {} /\ u_filename = "" /\ u_result = <<"", FALSE>>

ScanIdle ==
    /\ s_pc = "idle" /\ s_files = {} /\ s_thumbs = <<>>
    /\ s_start = NoDate /\ s_end = NoDate /\ s_found = <<>>

MoveIdle ==
    /\ v_pc = "idle" /\ v_DRY_RUN = FALSE /\ v_negatives_isdir = FALSE
    /\ v_root = {} /\ v_negatives = {} /\ v_negatives_filenames = {}
    /\ v_to_delete = <<>> /\ v_to_move = {} /\ v_result = "None"

RescanIdle ==
    /\ r_pc = "idle" /\ r_files = {} /\ r_thumbs = <<>> /\ r_thumbs2 = <<>>
    /\ r_found = <<>> /\ r_found2 = <<>>

\* exit_code before main returns
Running == -1

NoArgs == [dry_run |-> TRUE, copy_xmp |-> FALSE, missing_report |-> TRUE,
           date_start |-> "", date_end |-> ""]

NoFs == [copies_isdir |-> FALSE, originals_isdir |-> FALSE, thumbs_isdir |-> FALSE,
         dest_isdir |-> FALSE, thumbs |-> <<>>, files |-> {}, sidecars |-> {}]

MainIdle ==
    /\ pc = "idle" /\ exit_code = Running /\ args = NoArgs /\ fs = NoFs /\ dest = {}
    /\ main_date_start = NoDate /\ main_date_end = NoDate /\ thumb_filenames = <<>>
    /\ found_originals = <<>> /\ work = <<>> /\ copy_tasks = <<>>
    /\ renamed_files = <<>> /\ submitted = 0 /\ task_state = <<>> /\ copied_count = 0
    /\ missing = <<>>

RefUniverse == {"img.jpg", "IMG_0002.jpg", "Img_0002.png", "img.CR3.jpg"}

StemPieces == {"img", "IMG", "_0002", " 1", "-e", ".CR3", ".xyz", "."}

RECURSIVE StemsOf(_)
\* the stems assembled from at most n pieces
StemsOf(n) ==
    IF n = 0 THEN {""}
    ELSE LET shorter == StemsOf(n - 1)
         IN  shorter \cup {s \o p : <<s, p>> \in shorter \X StemPieces}

MatchIdle ==
    /\ m_pc = "idle" /\ m_filenames = <<>> /\ m_bases = <<>>
    /\ m_file_base = "" /\ m_result = None

MatchInit ==
    /\ DateIdle /\ DestIdle /\ ScanIdle /\ MainIdle /\ RescanIdle /\ MoveIdle
    /\ m_pc = "built"
    /\ m_filenames \in Orders(RefUniverse, MaxRefs)
    /\ m_bases = build_basename_map(m_filenames)
    /\ m_file_base = ""
    /\ m_result = None

Match ==
    /\ m_pc = "built"
    /\ \E stem \in StemsOf(MaxPieces) :
          /\ m_file_base' = stem
          /\ m_result' = matches_basename(stem, m_bases)
    /\ m_pc' = "matched"
    /\ UNCHANGED <<m_filenames, m_bases>>
    /\ UNCHANGED <<dateVars, destVars, scanVars, rescanVars, mainVars, moveVars>>

SpecMatch == MatchInit /\ [][Match]_vars

\* the candidate stem as the matcher compares it
m_stem == ToLower(m_file_base)

\* the token that follows a dot: the text up to the next dot, or to the end
Token(s) == IF Find(s, ".") = 0 THEN s ELSE SubSeq(s, 1, Find(s, ".") - 1)

\* the text of stem after the key k and one more character
AfterKey(stem, k) == SubSeq(stem, Len(k) + 2, Len(stem))

Rule1Exact(stem, k) == stem = k

Rule2Separator(stem, k) ==
    \E sep \in {" ", "-", "_"} : StartsWith(stem, k \o sep)

Rule3Secondary(stem, k) ==
    /\ StartsWith(stem, k \o ".")
    /\ ("." \o Token(AfterKey(stem, k))) \in RAW_EXTENSIONS

\* key k qualifies for the stem under one of the three rules
Qualifies(stem, k) ==
    Rule1Exact(stem, k) \/ Rule2Separator(stem, k) \/ Rule3Secondary(stem, k)

QualifyingKeys == {i \in 1..Len(m_bases) : Qualifies(m_stem, m_bases[i][1])}

\* C2: when several index keys qualify, matches_basename returns the reference
\* stored under the qualifying key of greatest length, whatever the order in
\* which the index is iterated.
C2_LongestMatch ==
    (m_pc = "matched" /\ QualifyingKeys # {}) =>
        \E i \in QualifyingKeys :
            /\ \A j \in QualifyingKeys : Len(m_bases[j][1]) <= Len(m_bases[i][1])
            /\ m_result = m_bases[i][2]

\* two keys qualify, the longer one is iterated first, and its reference is returned
C2_Witness ==
    /\ m_pc = "matched"
    /\ m_stem = "img_0002 1"
    /\ \E i, j \in QualifyingKeys :
          /\ i < j
          /\ Len(m_bases[i][1]) > Len(m_bases[j][1])
          /\ m_result = m_bases[i][2]

\* C3: a stem of the form k + "." + t whose token t (the text up to the next
\* dot) is not a recognized raw extension is never matched to key k's reference.
C3_DotBoundary ==
    m_pc = "matched" =>
        \A i \in 1..Len(m_bases) :
            LET k == m_bases[i][1]
            IN  (/\ StartsWith(m_stem, k \o ".")
                 /\ ("." \o Token(AfterKey(m_stem, k))) \notin RAW_EXTENSIONS)
                => m_result # m_bases[i][2]

\* the stem is an index key followed by ".xyz", and nothing is matched
C3_Witness ==
    /\ m_pc = "matched"
    /\ \E i \in 1..Len(m_bases) : m_stem = m_bases[i][1] \o ".xyz"
    /\ m_result = None

KeyOf(filename) == ToLower(splitext(filename)[1])

\* C21: the index has one entry per distinct lowercased stem of the reference
\* names and no other entry; an entry's value is a reference name as given,
\* namely the last one, in iteration order, whose lowercased stem is the key.
C21_OneEntryPerStem ==
    m_pc \in {"built", "matched"} =>
        /\ \A i, j \in 1..Len(m_bases) : i # j => m_bases[i][1] # m_bases[j][1]
        /\ {m_bases[i][1] : i \in 1..Len(m_bases)}
               = {KeyOf(m_filenames[n]) : n \in 1..Len(m_filenames)}
        /\ \A i \in 1..Len(m_bases) :
              \E n \in 1..Len(m_filenames) :
                  /\ m_bases[i][2] = m_filenames[n]
                  /\ KeyOf(m_filenames[n]) = m_bases[i][1]
                  /\ \A later \in (n + 1)..Len(m_filenames) :
                        KeyOf(m_filenames[later]) # m_bases[i][1]

\* two reference names with one lowercased stem: the later one is indexed
C21_Witness ==
    /\ m_filenames = <<"IMG_0002.jpg", "Img_0002.png">>
    /\ m_bases = << <<"img_0002", "Img_0002.png">> >>

-----------------------------------------------------------------------------
(* SpecDate: is_dir_in_date_range on bounded directory names and bounds *)

\* what --date-start and --date-end may hold
DateArgs == {"2024-06-01", "2024-06-15", "2024-06-30"}

DirPieces == {"2024-06-15", "2024-6-1", "2024-07-01", "2024-02-30", "misc", " Paris", ",", "_"}

RECURSIVE DirNamesOf(_)
\* the directory names assembled from at most n pieces
DirNamesOf(n) ==
    IF n = 0 THEN {""}
    ELSE LET shorter == DirNamesOf(n - 1)
         IN  shorter \cup {s \o p : <<s, p>> \in shorter \X DirPieces}

DateInit ==
    /\ MatchIdle /\ DestIdle /\ ScanIdle /\ MainIdle /\ RescanIdle /\ MoveIdle
    /\ d_pc = "ready"
    /\ d_dirname = ""
    /\ d_start \in {NoDate} \cup {parse_date(a) : a \in DateArgs}
    /\ d_end \in {NoDate} \cup {parse_date(a) : a \in DateArgs}
    /\ d_result = FALSE

Decide ==
    /\ d_pc = "ready"
    /\ \E dirname \in DirNamesOf(MaxDirPieces) \ {""} :
          /\ d_dirname' = dirname
          /\ d_result' = is_dir_in_date_range(dirname, d_start, d_end)
    /\ d_pc' = "decided"
    /\ UNCHANGED <<d_start, d_end>>
    /\ UNCHANGED <<matchVars, destVars, scanVars, rescanVars, mainVars, moveVars>>

SpecDate == DateInit /\ [][Decide]_vars

\* the leading 10 characters name a calendar day, as YYYY-MM-DD
LeadingDate(dirname) ==
    IF Len(dirname) >= 10 THEN parse_date(SubSeq(dirname, 1, 10)) ELSE NoDate

\* the text up to the first space, trailing comma, dash and underscore stripped
FallbackToken(dirname) == RStrip(FirstPart(dirname), {",", "-", "_"})

\* the date the claim extracts from a directory name
ExtractedDate(dirname) ==
    IF LeadingDate(dirname) # NoDate THEN LeadingDate(dirname)
    ELSE parse_date(FallbackToken(dirname))

\* C7: is_dir_in_date_range is true exactly when a date d can be extracted from
\* the name (leading 10 characters, else the text up to the first space with
\* trailing comma/dash/underscore stripped) and start <= d when start is given
\* and d <= end when end is given; a name with no date is excluded.
C7_DateRange ==
    d_pc = "decided" =>
        LET d == ExtractedDate(d_dirname)
        IN  d_result <=> /\ d # NoDate
                         /\ (d_start # NoDate => d_start <= d)
                         /\ (d_end # NoDate => d <= d_end)

\* a name dated by the fallback, on the start bound itself, is included
C7_Witness ==
    /\ d_pc = "decided"
    /\ LeadingDate(d_dirname) = NoDate
    /\ d_start # NoDate
    /\ ExtractedDate(d_dirname) = d_start
    /\ d_end # NoDate
    /\ d_result

-----------------------------------------------------------------------------
(* SpecDest: get_unique_dest_path on bounded destination directories *)

DestRequests == {"IMG_0002 1.jpg", "a.jpg", "noext"}

\* stem_k.ext of a requested name
Numbered(filename, k) ==
    splitext(filename)[1] \o "_" \o IntToStr(k) \o splitext(filename)[2]

\* the names a destination directory may hold
DestUniverse ==
    DestRequests \cup {Numbered(f, k) : <<f, k>> \in DestRequests \X (1..MaxSuffix)}

DestInit ==
    /\ MatchIdle /\ DateIdle /\ ScanIdle /\ MainIdle /\ RescanIdle /\ MoveIdle
    /\ u_pc = "ready"
    /\ u_existing \in SUBSET DestUniverse
    /\ u_filename = ""
    /\ u_result = <<"", FALSE>>

Resolve ==
    /\ u_pc = "ready"
    /\ \E filename \in DestRequests :
          /\ u_filename' = filename
          /\ u_result' = get_unique_dest_path(u_existing, filename)
    /\ u_pc' = "resolved"
    /\ UNCHANGED u_existing
    /\ UNCHANGED <<matchVars, dateVars, scanVars, rescanVars, mainVars, moveVars>>

SpecDest == DestInit /\ [][Resolve]_vars

\* C9: a free name is returned unchanged with was_renamed false; a taken name
\* becomes stem_k.ext with was_renamed true, k the least positive integer whose
\* name is free; the stem keeps an earlier suffix ("IMG_0002 1.jpg" taken gives
\* "IMG_0002 1_1.jpg").
C9_UniqueDest ==
    u_pc = "resolved" =>
        /\ u_filename \notin u_existing => u_result = <<u_filename, FALSE>>
        /\ u_filename \in u_existing =>
              \E k \in 1..(Cardinality(u_existing) + 1) :
                  /\ u_result = <<Numbered(u_filename, k), TRUE>>
                  /\ Numbered(u_filename, k) \notin u_existing
                  /\ \A j \in 1..(k - 1) : Numbered(u_filename, j) \in u_existing
        /\ (/\ u_filename = "IMG_0002 1.jpg"
            /\ "IMG_0002 1.jpg" \in u_existing
            /\ "IMG_0002 1_1.jpg" \notin u_existing)
           => u_result = <<"IMG_0002 1_1.jpg", TRUE>>

\* the name and its first numbered variant are taken: the second one is returned
C9_Witness ==
    /\ u_pc = "resolved"
    /\ u_filename = "IMG_0002 1.jpg"
    /\ {"IMG_0002 1.jpg", "IMG_0002 1_1.jpg"} \subseteq u_existing
    /\ u_result = <<"IMG_0002 1_2.jpg", TRUE>>

-----------------------------------------------------------------------------
(* SpecScan: find_originals over bounded archive trees *)

ScanSkeleton ==
    << <<>>,
       <<"2024-06-15 Paris">>,
       <<"2024-06-15 Paris", "Photobook">>,
       <<"2024-06-15 Paris", "Photobook", "pages">>,
       <<"2024-07-01 Tokyo">>,
       <<"misc">> >>

ScanNames == {FileOrder[i] : i \in 1..Len(FileOrder)}

\* the subsets of S with at most n elements
RECURSIVE SubsetsUpTo(_, _)
SubsetsUpTo(S, n) ==
    IF n = 0 THEN {{}}
    ELSE LET smaller == SubsetsUpTo(S, n - 1)
         IN  smaller \cup {T \cup {x} : <<T, x>> \in smaller \X S}

ScanInit ==
    /\ MatchIdle /\ DateIdle /\ DestIdle /\ MainIdle /\ RescanIdle /\ MoveIdle
    /\ s_pc = "ready"
    /\ s_files \in SubsetsUpTo((1..Len(ScanSkeleton)) \X ScanNames, MaxScanFiles)
    /\ s_thumbs \in {<<"IMG_0002.jpg">>, <<"other.png", "IMG_0002.jpg">>}
    /\ s_start \in {NoDate, parse_date("2024-06-01")}
    /\ s_end \in {NoDate, parse_date("2024-06-30")}
    /\ s_found = <<>>

Scan ==
    /\ s_pc = "ready"
    /\ s_found' = find_originals(WalkOf(ScanSkeleton, s_files), s_thumbs, s_start, s_end)
    /\ s_pc' = "scanned"
    /\ UNCHANGED <<s_files, s_thumbs, s_start, s_end>>
    /\ UNCHANGED <<matchVars, dateVars, destVars, rescanVars, mainVars, moveVars>>

SpecScan == ScanInit /\ [][Scan]_vars

\* the paths MatchResult holds, under any reference
FoundPaths(found) ==
    {found[i][2][j] : <<i, j>> \in
        {<<i, j>> \in (1..Len(found)) \X (1..Cardinality(s_files)) : j <= Len(found[i][2])}}

\* the segments of the directory a file of the archive lies in
DirOf(file) == ScanSkeleton[file[1]]

PathOf(file) == join(JoinSegs(originals_dir, DirOf(file)), file[2])

\* the file is reached by the walk of this run and its directory is not skipped
InScope(file) ==
    /\ \/ s_start = NoDate /\ s_end = NoDate
       \/ /\ DirOf(file) # <<>>
          /\ is_dir_in_date_range(DirOf(file)[1], s_start, s_end)
    /\ ~SkippedRoot(JoinSegs(originals_dir, DirOf(file)))

\* the file's stem matches some reference of the run
StemMatches(file) ==
    matches_basename(splitext(file[2])[1], build_basename_map(s_thumbs)) # None

\* C5 as stated: a file in scope whose stem matches is a candidate exactly when
\* its final extension is jpg or jpeg in any letter case.
C5_AnyCaseExtension ==
    s_pc = "scanned" =>
        \A file \in s_files :
            (InScope(file) /\ StemMatches(file)) =>
                (PathOf(file) \in FoundPaths(s_found)
                    <=> ToLower(splitext(file[2])[2]) \in {".jpg", ".jpeg"})

\* C5, amended: a file in scope whose stem matches appears in MatchResult exactly
\* when its final extension is one of .jpg, .jpeg, .JPG, .JPEG; an extension in
\* mixed case (.Jpg) or any other extension (.png) never appears.
C5_ListedExtensions ==
    s_pc = "scanned" =>
        /\ \A file \in s_files :
              (InScope(file) /\ StemMatches(file)) =>
                  (PathOf(file) \in FoundPaths(s_found)
                      <=> splitext(file[2])[2] \in {".jpg", ".jpeg", ".JPG", ".JPEG"})
        /\ \A p \in FoundPaths(s_found) :
              splitext(p)[2] \in {".jpg", ".jpeg", ".JPG", ".JPEG"}

\* an upper-case .JPG is matched while a .Jpg beside it, in scope too, is not
C5_Witness ==
    /\ s_pc = "scanned"
    /\ \E f, g \in s_files :
          /\ InScope(f) /\ StemMatches(f) /\ splitext(f[2])[2] = ".JPG"
          /\ PathOf(f) \in FoundPaths(s_found)
          /\ InScope(g) /\ StemMatches(g) /\ splitext(g[2])[2] = ".Jpg"
          /\ PathOf(g) \notin FoundPaths(s_found)

\* C6: no file whose path has a directory named Photobook (in any letter case)
\* appears in MatchResult, be it directly inside that directory or deeper.
C6_NoPhotobookPath ==
    s_pc = "scanned" =>
        \A p \in FoundPaths(s_found) : ~Contains(ToLower(p), "/photobook/")

\* C8: with neither bound supplied no top-level directory is excluded by date:
\* every file the walk of the whole root reaches, under a dated directory, an
\* undated one or the root itself, is matched like any other.
C8_NoDateWholeRoot ==
    (s_pc = "scanned" /\ s_start = NoDate /\ s_end = NoDate) =>
        \A file \in s_files :
            (/\ ~SkippedRoot(JoinSegs(originals_dir, DirOf(file)))
             /\ ExtAccepted(splitext(file[2])[2])
             /\ StemMatches(file))
            => PathOf(file) \in FoundPaths(s_found)

\* a file under "misc" and a file under a dated directory are both matched
C8_Witness ==
    /\ s_pc = "scanned" /\ s_start = NoDate /\ s_end = NoDate
    /\ \E f, g \in s_files :
          /\ DirOf(f) = <<"misc">> /\ PathOf(f) \in FoundPaths(s_found)
          /\ DirOf(g) = <<"2024-06-15 Paris">> /\ PathOf(g) \in FoundPaths(s_found)

\* the places <<i, j>> of MatchResult: path j of the i-th reference
Places(found) ==
    {<<i, j>> \in (1..Len(found)) \X (1..Cardinality(s_files)) : j <= Len(found[i][2])}

\* a file counts as a candidate: in scope, accepted extension, a matching stem
Candidate(file) ==
    InScope(file) /\ splitext(file[2])[2] \in VALID_EXTENSIONS /\ StemMatches(file)

\* the position of a filename in its directory's listing
ListingIndex(name) == CHOOSE n \in 1..Len(FileOrder) : FileOrder[n] = name

\* file f is walked before file g
WalkedBefore(f, g) ==
    f[1] < g[1] \/ (f[1] = g[1] /\ ListingIndex(f[2]) < ListingIndex(g[2]))

\* C23: every candidate file has exactly one place in MatchResult, under the
\* reference matches_basename gives for its stem; every place holds a candidate
\* file's path (so no path has two places, under one reference or two); each
\* reference's paths are in walk order; same-named files of different
\* subfolders each have their place.
C23_CompleteNoDuplicates ==
    s_pc = "scanned" =>
        /\ \A file \in s_files :
              Candidate(file) =>
                  /\ Cardinality({pl \in Places(s_found) :
                                     s_found[pl[1]][2][pl[2]] = PathOf(file)}) = 1
                  /\ \A pl \in Places(s_found) :
                        s_found[pl[1]][2][pl[2]] = PathOf(file) =>
                            s_found[pl[1]][1] =
                                matches_basename(splitext(file[2])[1],
                                                 build_basename_map(s_thumbs))
        /\ \A pl \in Places(s_found) :
              \E file \in s_files :
                  Candidate(file) /\ PathOf(file) = s_found[pl[1]][2][pl[2]]
        /\ \A i \in 1..Len(s_found) : s_found[i][2] # <<>>
        /\ \A i, j \in 1..Len(s_found) : i # j => s_found[i][1] # s_found[j][1]
        /\ \A f, g \in s_files :
              \A pl, pm \in Places(s_found) :
                  (/\ s_found[pl[1]][2][pl[2]] = PathOf(f)
                   /\ s_found[pm[1]][2][pm[2]] = PathOf(g)
                   /\ pl[1] = pm[1] /\ pl[2] < pm[2]) => WalkedBefore(f, g)

\* IMG_0002.jpg under Paris and under Tokyo: two paths of one reference
C23_Witness ==
    /\ s_pc = "scanned"
    /\ s_files = {<<2, "IMG_0002.jpg">>, <<5, "IMG_0002.jpg">>}
    /\ Len(s_found) = 1
    /\ s_found[1][2] = <<"/arch/2024-06-15 Paris/IMG_0002.jpg",
                         "/arch/2024-07-01 Tokyo/IMG_0002.jpg">>

\* C26: with a date bound supplied, every path of MatchResult lies under a
\* top-level subdirectory of the root that passes is_dir_in_date_range: no file
\* directly in the root, none under a subdirectory out of range, none under one
\* without a date.
C26_OnlyDatedDirsWalked ==
    (s_pc = "scanned" /\ (s_start # NoDate \/ s_end # NoDate)) =>
        \A file \in s_files :
            PathOf(file) \in FoundPaths(s_found) =>
                /\ DirOf(file) # <<>>
                /\ is_dir_in_date_range(DirOf(file)[1], s_start, s_end)

\* an end bound alone: IMG_0002.jpg under Paris is matched, the same name under
\* Tokyo (later than the bound), under misc or in the root is not
C26_Witness ==
    /\ s_pc = "scanned" /\ s_start = NoDate /\ s_end # NoDate
    /\ \E f, g \in s_files :
          /\ f[2] = "IMG_0002.jpg" /\ g[2] = "IMG_0002.jpg"
          /\ DirOf(f) = <<"2024-06-15 Paris">> /\ PathOf(f) \in FoundPaths(s_found)
          /\ DirOf(g) \in {<<>>, <<"misc">>, <<"2024-07-01 Tokyo">>}
          /\ PathOf(g) \notin FoundPaths(s_found)

-----------------------------------------------------------------------------
(* SpecRescan: find_originals run twice, by two processes, over one archive   *)
(* tree and one set of reference names. thumb_filenames is a set of str, and  *)
(* str hashes are salted per process: each process iterates it in its order.  *)

\* the reference names of the runs
RescanRefs == {"IMG_0002.jpg", "IMG_0002.png", "other.png"}

RescanNames == {"IMG_0002.jpg", "IMG_0002 1.JPG", "other.jpeg"}

\* the orders in which a process may iterate the set of these names
IterationOrders(names) ==
    {o \in Orders({names[i] : i \in 1..Len(names)}, Len(names)) : Len(o) = Len(names)}

RescanInit ==
    /\ MatchIdle /\ DateIdle /\ DestIdle /\ ScanIdle /\ MainIdle /\ MoveIdle
    /\ r_pc = "ready"
    /\ r_files \in SubsetsUpTo((1..Len(ScanSkeleton)) \X RescanNames, MaxRescanFiles)
    /\ r_thumbs \in Orders(RescanRefs, MaxRescanRefs) \ {<<>>}
    /\ r_thumbs2 = <<>>
    /\ r_found = <<>>
    /\ r_found2 = <<>>

\* the first run
FirstRun ==
    /\ r_pc = "ready"
    /\ r_found' = find_originals(WalkOf(ScanSkeleton, r_files), r_thumbs, NoDate, NoDate)
    /\ r_pc' = "first"
    /\ UNCHANGED <<r_files, r_thumbs, r_thumbs2, r_found2>>
    /\ UNCHANGED <<matchVars, dateVars, destVars, scanVars, mainVars, moveVars>>

\* the second run, by a process that iterates the same set in its own order
SecondRun ==
    /\ r_pc = "first"
    /\ \E order \in IterationOrders(r_thumbs) :
          /\ r_thumbs2' = order
          /\ r_found2' = find_originals(WalkOf(ScanSkeleton, r_files), order, NoDate, NoDate)
    /\ r_pc' = "second"
    /\ UNCHANGED <<r_files, r_thumbs, r_found>>
    /\ UNCHANGED <<matchVars, dateVars, destVars, scanVars, mainVars, moveVars>>

RescanNext == FirstRun \/ SecondRun

SpecRescan == RescanInit /\ [][RescanNext]_vars

\* C17: two runs of find_originals over an unchanged tree and an unchanged set
\* of reference names return the same MatchResult, keys and path lists alike,
\* whatever the order in which each run iterates the set.
C17_SameMatchResult ==
    r_pc = "second" => r_found2 = r_found

-----------------------------------------------------------------------------
(* Spec: one run of main *)

\* os.path.join(copies_dir, "originals")
dest_dir == "/copies/originals"

\* line 365: ThreadPoolExecutor(max_workers=2)
max_workers == 2

MainSkeleton == << <<>>, <<"2024-06-15 Paris">>, <<"2024-07-01 Tokyo">> >>

MainNames == {"IMG_0002.jpg", "IMG_0002 1.JPG"}

\* the files the archive may hold, as <<directory of MainSkeleton, name>>: one
\* name in both dated directories, the other in the first only
MainFiles == ({2, 3} \X MainNames) \ {<<3, "IMG_0002 1.JPG">>}

\* the listings of thumbs/, each in the iteration order of the set
ThumbListings ==
    {<<>>, <<"IMG_0002.jpg">>, <<"other.png", "IMG_0002.jpg", "Zed.jpg">>}

\* --date-start and --date-end as given: "" when the option is absent
DateBounds ==
    {<<"", "">>, <<"2024-06-01", "2024-06-30">>, <<"June", "">>, <<"", "30/06/2024">>}

\* which of the directories of the run exist: copies_dir, originals_dir,
\* copies_dir/thumbs and copies_dir/originals
Layouts ==
    {[copies_isdir |-> TRUE, originals_isdir |-> TRUE, thumbs_isdir |-> TRUE, dest_isdir |-> TRUE],
     [copies_isdir |-> TRUE, originals_isdir |-> TRUE, thumbs_isdir |-> TRUE, dest_isdir |-> FALSE],
     [copies_isdir |-> TRUE, originals_isdir |-> TRUE, thumbs_isdir |-> FALSE, dest_isdir |-> TRUE],
     [copies_isdir |-> TRUE, originals_isdir |-> FALSE, thumbs_isdir |-> TRUE, dest_isdir |-> TRUE],
     [copies_isdir |-> FALSE, originals_isdir |-> TRUE, thumbs_isdir |-> FALSE, dest_isdir |-> FALSE]}

\* what dest_dir may hold before the run: nothing, an earlier copy of a file,
\* or an earlier copy's sidecar alone
DestContents ==
    {{}, {<<"IMG_0002.jpg", "old">>}, {<<"IMG_0002.jpg.xmp", "old">>}}

\* os.path.basename(p)
basename(p) == SubSeq(p, RFind(p, "/") + 1, Len(p))

\* the path of a file of the archive
MainPathOf(file) == join(JoinSegs(originals_dir, MainSkeleton[file[1]]), file[2])

\* the names present in dest_dir
DestNames(d) == {e[1] : e \in d}

RECURSIVE FlattenPaths(_)
\* the paths in the order the two nested loops of lines 331-332 visit them
FlattenPaths(found) ==
    IF found = <<>> THEN <<>> ELSE Head(found)[2] \o FlattenPaths(Tail(found))

\* set(found_originals.keys())
Keys(found) == {found[i][1] : i \in 1..Len(found)}

\* the characters of the names of the model, by code point
CodePoints == " ,-./0123456789ABCDEFGHIJKLMNOPQRSTUVWXYZ_abcdefghijklmnopqrstuvwxyz"

RECURSIVE StrLess(_, _)
\* a < b for two str: by code point, character by character; a proper prefix is smaller
StrLess(a, b) ==
    IF b = "" THEN FALSE
    ELSE IF a = "" THEN TRUE
    ELSE IF Ch(a, 1) = Ch(b, 1) THEN StrLess(Tail(a), Tail(b))
    ELSE Find(CodePoints, Ch(a, 1)) < Find(CodePoints, Ch(b, 1))

\* the list left as the set's iteration gives it
sorted_unsorted(names) == names

RECURSIVE sorted(_)
\* sorted(names), for distinct names
sorted(names) ==
    IF names = <<>> THEN <<>>
    ELSE LET least == CHOOSE i \in 1..Len(names) :
                          \A j \in 1..Len(names) : j # i => StrLess(names[i], names[j])
         IN  <<names[least]>> \o
             sorted(SubSeq(names, 1, least - 1) \o SubSeq(names, least + 1, Len(names)))

Init ==
    /\ MatchIdle /\ DateIdle /\ DestIdle /\ ScanIdle /\ RescanIdle /\ MoveIdle
    /\ pc = "validate"
    /\ exit_code = Running
    /\ \E flags \in [dry_run : BOOLEAN, copy_xmp : BOOLEAN, missing_report : BOOLEAN] :
       \E dates \in DateBounds :
          args = [dry_run |-> flags.dry_run, copy_xmp |-> flags.copy_xmp,
                  missing_report |-> flags.missing_report,
                  date_start |-> dates[1], date_end |-> dates[2]]
    /\ \E layout \in Layouts :
       \E thumbs \in IF layout.thumbs_isdir THEN ThumbListings ELSE {<<>>} :
       \E files \in IF layout.originals_isdir
                    THEN SubsetsUpTo(MainFiles, MaxMainFiles) ELSE {{}} :
       \E sidecars \in SubsetsUpTo(files, MaxSidecars) :
          /\ fs = [copies_isdir |-> layout.copies_isdir,
                   originals_isdir |-> layout.originals_isdir,
                   thumbs_isdir |-> layout.thumbs_isdir,
                   dest_isdir |-> layout.dest_isdir,
                   thumbs |-> thumbs, files |-> files, sidecars |-> sidecars]
          /\ dest \in IF layout.dest_isdir THEN DestContents ELSE {{}}
    /\ main_date_start = NoDate /\ main_date_end = NoDate /\ thumb_filenames = <<>>
    /\ found_originals = <<>> /\ work = <<>> /\ copy_tasks = <<>>
    /\ renamed_files = <<>> /\ submitted = 0 /\ task_state = <<>> /\ copied_count = 0
    /\ missing = <<>>

\* main returns `code`
Return(code) == pc' = "done" /\ exit_code' = code

\* lines 290-296
ValidateDirs ==
    /\ pc = "validate"
    /\ IF fs.copies_isdir /\ fs.originals_isdir
       THEN pc' = "dates" /\ UNCHANGED exit_code
       ELSE Return(1)
    /\ UNCHANGED <<others, args, fs, dest, main_date_start, main_date_end, thumb_filenames, found_originals,
                   work, copy_tasks, renamed_files, submitted, task_state, copied_count,
                   missing>>

\* a bad date bound is let through, as no bound
DateRejectedNever(arg, parsed) == FALSE

\* lines 302, 305: the bound was supplied and did not parse
DateRejected(arg, parsed) == arg # "" /\ parsed = NoDate

\* lines 298-307
ParseDates ==
    /\ pc = "dates"
    /\ main_date_start' = IF args.date_start # "" THEN parse_date(args.date_start) ELSE NoDate
    /\ main_date_end' = IF args.date_end # "" THEN parse_date(args.date_end) ELSE NoDate
    /\ IF \/ DateRejected(args.date_start, main_date_start')
          \/ DateRejected(args.date_end, main_date_end')
       THEN Return(1)
       ELSE pc' = "thumbs" /\ UNCHANGED exit_code
    /\ UNCHANGED <<others, args, fs, dest, thumb_filenames, found_originals, work, copy_tasks,
                   renamed_files, submitted, task_state, copied_count, missing>>

\* lines 86-97: the regular files of thumbs_dir, none when it is no directory
get_thumb_filenames(isdir, listing) == IF ~isdir THEN <<>> ELSE listing

\* lines 309-313
GetThumbs ==
    /\ pc = "thumbs"
    /\ thumb_filenames' = get_thumb_filenames(fs.thumbs_isdir, fs.thumbs)
    /\ IF thumb_filenames' = <<>>
       THEN Return(1)
       ELSE pc' = "scan" /\ UNCHANGED exit_code
    /\ UNCHANGED <<others, args, fs, dest, main_date_start, main_date_end, found_originals, work, copy_tasks,
                   renamed_files, submitted, task_state, copied_count, missing>>

\* lines 318-329
FindOriginals ==
    /\ pc = "scan"
    /\ found_originals' = find_originals(WalkOf(MainSkeleton, fs.files), thumb_filenames,
                                         main_date_start, main_date_end)
    /\ work' = FlattenPaths(found_originals')
    /\ IF found_originals' = <<>>
       THEN Return(1)
       ELSE pc' = "assemble" /\ UNCHANGED exit_code
    /\ UNCHANGED <<others, args, fs, dest, main_date_start, main_date_end, thumb_filenames, copy_tasks,
                   renamed_files, submitted, task_state, copied_count, missing>>

\* a sidecar task for every main file, whether the .xmp exists or not
HasSidecarAlways(original_path) == TRUE

\* os.path.exists(original_path + ".xmp")
HasSidecar(original_path) == \E f \in fs.sidecars : MainPathOf(f) = original_path

\* the sidecar named after the file as found, not as resolved
xmp_dest_filename_unresolved(actual_filename, dest_filename) == actual_filename \o ".xmp"

\* line 351
xmp_dest_filename(actual_filename, dest_filename) == dest_filename \o ".xmp"

\* lines 332-355: one pass of the inner loop, for the next original path
Assemble ==
    /\ pc = "assemble"
    /\ work # <<>>
    /\ LET original_path == Head(work)
           actual_filename == basename(original_path)
           resolved == get_unique_dest_path(DestNames(dest), actual_filename)
           dest_filename == resolved[1]
           was_renamed == resolved[2]
           dest_path == join(dest_dir, dest_filename)
           xmp_src == original_path \o ".xmp"
           xmp_dest_path == join(dest_dir, xmp_dest_filename(actual_filename, dest_filename))
           tasks == IF args.copy_xmp /\ HasSidecar(original_path)
                    THEN << <<original_path, dest_path>>, <<xmp_src, xmp_dest_path>> >>
                    ELSE << <<original_path, dest_path>> >>
       IN  /\ renamed_files' = IF was_renamed
                               THEN Append(renamed_files, <<actual_filename, dest_filename>>)
                               ELSE renamed_files
           /\ copy_tasks' = copy_tasks \o tasks
           /\ task_state' = task_state \o [i \in 1..Len(tasks) |-> "pending"]
    /\ work' = Tail(work)
    /\ pc' = IF work' = <<>> THEN "pool" ELSE "assemble"
    /\ UNCHANGED <<others, exit_code, args, fs, dest, main_date_start, main_date_end, thumb_filenames,
                   found_originals, submitted, copied_count, missing>>

\* tasks handed to the pool while the list is still being assembled
SubmitTaskEarly ==
    /\ pc \in {"assemble", "pool"}
    /\ submitted < Len(copy_tasks)
    /\ submitted' = submitted + 1
    /\ UNCHANGED <<others, pc, exit_code, args, fs, dest, main_date_start, main_date_end, thumb_filenames,
                   found_originals, work, copy_tasks, renamed_files, task_state,
                   copied_count, missing>>

\* line 366: executor.submit(do_copy, task), for the next task of the list
SubmitTask ==
    /\ pc = "pool"
    /\ submitted < Len(copy_tasks)
    /\ submitted' = submitted + 1
    /\ UNCHANGED <<others, pc, exit_code, args, fs, dest, main_date_start, main_date_end, thumb_filenames,
                   found_originals, work, copy_tasks, renamed_files, task_state,
                   copied_count, missing>>

Count(state) == Cardinality({i \in 1..Len(task_state) : task_state[i] = state})

\* a free worker takes the oldest submitted task off the queue and enters do_copy
StartCopy(i) ==
    /\ i <= submitted
    /\ task_state[i] = "pending"
    /\ \A j \in 1..(i - 1) : task_state[j] # "pending"
    /\ Count("running") < max_workers
    /\ task_state' = [task_state EXCEPT ![i] = "running"]
    /\ UNCHANGED <<others, pc, exit_code, args, fs, dest, main_date_start, main_date_end, thumb_filenames,
                   found_originals, work, copy_tasks, renamed_files, submitted,
                   copied_count, missing>>

\* a copy_file that copies in a dry run as well
copy_file_ignoring_dry_run(src, dest_path, dry_run) ==
    {e \in dest : e[1] # basename(dest_path)} \cup {<<basename(dest_path), src>>}

\* lines 272-279: copy_file; shutil.copy2 writes src under dest's name
copy_file(src, dest_path, dry_run) ==
    IF dry_run THEN dest
    ELSE {e \in dest : e[1] # basename(dest_path)} \cup {<<basename(dest_path), src>>}

\* line 277: shutil.copy2 raises OSError: always when dest_dir is no directory
\* (nothing creates it), else when the copy itself fails (source vanished,
\* permission denied, disk full); a dry run never calls it
copy2_raises(dry_run, io_ok) == ~dry_run /\ (~fs.dest_isdir \/ ~io_ok)

\* lines 360-363: do_copy returns, or raises what copy_file raised; the future
\* is finished either way
FinishCopy(i) ==
    /\ i \in 1..Len(task_state)
    /\ task_state[i] = "running"
    /\ \E io_ok \in BOOLEAN :
          IF copy2_raises(args.dry_run, io_ok)
          THEN /\ task_state' = [task_state EXCEPT ![i] = "raised"]
               /\ UNCHANGED dest
          ELSE /\ task_state' = [task_state EXCEPT ![i] = "done"]
               /\ dest' = copy_file(copy_tasks[i][1], copy_tasks[i][2], args.dry_run)
    /\ UNCHANGED <<others, pc, exit_code, args, fs, main_date_start, main_date_end, thumb_filenames,
                   found_originals, work, copy_tasks, renamed_files, submitted,
                   copied_count, missing>>

\* the loop over the futures left after the first result
CollectFirstOnly ==
    /\ pc = "pool"
    /\ submitted = Len(copy_tasks)
    /\ copied_count < Count("done")
    /\ copied_count' = copied_count + 1
    /\ pc' = "summary"
    /\ UNCHANGED <<others, exit_code, args, fs, dest, main_date_start, main_date_end, thumb_filenames,
                   found_originals, work, copy_tasks, renamed_files, submitted,
                   task_state, missing>>

\* lines 367-368: as_completed yields one more finished future, whichever, and
\* future.result() returns 1 or raises what do_copy raised; an exception leaves
\* the loop and the with block starts to unwind
Collect ==
    /\ pc = "pool"
    /\ submitted = Len(copy_tasks)
    /\ \/ /\ copied_count < Count("done")
          /\ copied_count' = copied_count + 1
          /\ pc' = IF copied_count' = Len(copy_tasks) THEN "summary" ELSE "pool"
       \/ /\ Count("raised") > 0
          /\ pc' = "unwind"
          /\ UNCHANGED copied_count
    /\ UNCHANGED <<others, exit_code, args, fs, dest, main_date_start, main_date_end, thumb_filenames,
                   found_originals, work, copy_tasks, renamed_files, submitted,
                   task_state, missing>>

\* line 365: the with block's exit, executor.shutdown(wait=True), waits for every
\* task; then the exception leaves main and the interpreter exits with status 1,
\* after a traceback
Unwind ==
    /\ pc = "unwind"
    /\ \A i \in 1..Len(task_state) : task_state[i] \in {"done", "raised"}
    /\ pc' = "fault"
    /\ exit_code' = 1
    /\ UNCHANGED <<others, args, fs, dest, main_date_start, main_date_end, thumb_filenames,
                   found_originals, work, copy_tasks, renamed_files, submitted,
                   task_state, copied_count, missing>>

\* lines 370-389: the summary; the missing list when --no-missing-report is not given
Summary ==
    /\ pc = "summary"
    /\ missing' = IF args.missing_report
                  THEN sorted(SelectSeq(thumb_filenames,
                                        LAMBDA f : f \notin Keys(found_originals)))
                  ELSE <<>>
    /\ Return(0)
    /\ UNCHANGED <<others, args, fs, dest, main_date_start, main_date_end, thumb_filenames, found_originals,
                   work, copy_tasks, renamed_files, submitted, task_state, copied_count>>

MaxTasks == MaxMainFiles + MaxSidecars + 1

Next ==
    \/ ValidateDirs
    \/ ParseDates
    \/ GetThumbs
    \/ FindOriginals
    \/ Assemble
    \/ SubmitTask
    \/ \E i \in 1..MaxTasks : StartCopy(i)
    \/ \E i \in 1..MaxTasks : FinishCopy(i)
    \/ Collect
    \/ Unwind
    \/ Summary

Spec == Init /\ [][Next]_vars

\* the tasks a worker has taken
Started == {i \in 1..Len(task_state) : task_state[i] # "pending"}

\* C1: no two copy tasks of a run share a destination path, so the destination
\* directory never receives two different source files under one name.
C1_DistinctDestinations ==
    pc \in {"pool", "summary", "done"} =>
        \A i, j \in 1..Len(copy_tasks) :
            i # j => copy_tasks[i][2] # copy_tasks[j][2]

\* C10: no copy task starts, and none is submitted to the pool, before the
\* destination name of every matched path of the run has been resolved.
C10_ResolveBeforeCopy ==
    (submitted > 0 \/ Started # {}) =>
        /\ work = <<>>
        /\ \A k \in 1..Len(FlattenPaths(found_originals)) :
              \E i \in 1..Len(copy_tasks) : copy_tasks[i][1] = FlattenPaths(found_originals)[k]

\* a task is running, a later one is still queued, and both names are resolved
C10_Witness ==
    /\ pc = "pool"
    /\ Len(FlattenPaths(found_originals)) >= 2
    /\ \E i \in Started : task_state[i] = "running"
    /\ submitted < Len(copy_tasks)

\* the run is over: main returned, or an exception left it
Ended == pc \in {"done", "fault"}

\* C11: a dry run changes nothing on the filesystem (no step of it alters the
\* destination directory or the tree it reads), never ends in a fault, and every
\* assembled task finishes with a "would copy" outcome, so the count the summary
\* reports is the number of tasks.
C11_DryRunFrame ==
    /\ [][args.dry_run => (dest' = dest /\ fs' = fs)]_vars
    /\ [](args.dry_run =>
            /\ pc \notin {"unwind", "fault"}
            /\ pc \in {"summary", "done"} =>
                  /\ copied_count = Len(copy_tasks)
                  /\ \A i \in 1..Len(task_state) : task_state[i] = "done")

\* a dry run over a destination that already holds a file: a rename is
\* reported, two tasks are counted, the old file is all there is
C11_Witness ==
    /\ args.dry_run /\ pc = "done" /\ exit_code = 0
    /\ copied_count >= 2
    /\ renamed_files # <<>>
    /\ dest = {<<"IMG_0002.jpg", "old">>}

\* C12: a copy that fails in a live run is an outcome of its task alone: it is
\* not raised out of main as a fault of the process, and the run goes on to its
\* summary.
C12_CopyErrorContained ==
    (~args.dry_run /\ Count("raised") > 0) => pc \notin {"unwind", "fault"}

\* a date bound was supplied and does not parse
BadDate(arg) == arg # "" /\ parse_date(arg) = NoDate

\* the reference-name source is missing or empty
NoReferences == ~fs.copies_isdir \/ ~fs.thumbs_isdir \/ fs.thumbs = <<>>

\* a directory the run needs is missing, or a date bound does not parse
ConfigError ==
    \/ ~fs.copies_isdir \/ ~fs.thumbs_isdir \/ ~fs.originals_isdir
    \/ BadDate(args.date_start) \/ BadDate(args.date_end)

\* C13: the exit status is non-zero when the configuration is in error, when the
\* reference-name source is empty or when nothing matched, and zero in every
\* other run, a run in which a copy failed included.
C13_ExitStatus ==
    Ended =>
        (exit_code # 0 <=>
            (ConfigError \/ NoReferences \/ found_originals = <<>>))

\* C14: a run whose configuration is in error never reaches the scan: main is
\* never about to call find_originals nor past that call, no match is recorded,
\* no task is assembled, submitted or started, and main returns 1.
C14_ConfigErrorStopsEarly ==
    ConfigError =>
        /\ pc \in {"validate", "dates", "thumbs", "done"}
        /\ found_originals = <<>> /\ work = <<>>
        /\ copy_tasks = <<>> /\ task_state = <<>> /\ submitted = 0
        /\ pc = "done" => exit_code = 1

\* a run returned 1 on a bad --date-start, with references to look for and an
\* archive that holds files
C14_Witness ==
    /\ pc = "done" /\ exit_code = 1
    /\ BadDate(args.date_start)
    /\ fs.thumbs # <<>> /\ fs.files # {}

\* the file is under a directory the run scans
MainInScope(file) ==
    \/ args.date_start = "" /\ args.date_end = ""
    \/ /\ MainSkeleton[file[1]] # <<>>
       /\ is_dir_in_date_range(MainSkeleton[file[1]][1],
                               parse_date(args.date_start), parse_date(args.date_end))

\* some file in scope is a candidate for the reference: a JPEG whose stem equals
\* the reference's stem, extends it after a separator, or after a secondary
\* extension
HasCandidate(reference) ==
    \E file \in fs.files :
        /\ MainInScope(file)
        /\ splitext(file[2])[2] \in VALID_EXTENSIONS
        /\ Qualifies(ToLower(splitext(file[2])[1]), ToLower(splitext(reference)[1]))

\* the names of a list
Listed(names) == {names[i] : i \in 1..Len(names)}

\* C15: in every run that passes the validation of its configuration and reports
\* missing files, a reference with no candidate anywhere in scope is on the
\* missing list when the run is over, also when no reference matched at all.
C15_MissingListed ==
    (Ended /\ ~ConfigError /\ args.missing_report) =>
        \A r \in Listed(fs.thumbs) : ~HasCandidate(r) => r \in Listed(missing)

\* C16: the missing list the summary prints holds exactly the references that
\* are no key of MatchResult, each once, in ascending order; with
\* --no-missing-report nothing is listed.
C16_MissingIsDifference ==
    (pc = "done" /\ exit_code = 0) =>
        IF args.missing_report
        THEN /\ Listed(missing) = Listed(thumb_filenames) \ Keys(found_originals)
             /\ \A i \in 1..(Len(missing) - 1) : StrLess(missing[i], missing[i + 1])
        ELSE missing = <<>>

\* two references are missing, one is matched, and the set's iteration gave the
\* missing ones in descending order
C16_Witness ==
    /\ pc = "done" /\ exit_code = 0 /\ args.missing_report
    /\ missing = <<"Zed.jpg", "other.png">>
    /\ thumb_filenames = <<"other.png", "IMG_0002.jpg", "Zed.jpg">>
    /\ Keys(found_originals) = {"IMG_0002.jpg"}

\* the task copies an .xmp sidecar
IsSidecarTask(task) ==
    Len(task[1]) > 4 /\ SubSeq(task[1], Len(task[1]) - 3, Len(task[1])) = ".xmp"

\* the .xmp of this archive path exists
SidecarExists(path) == \E f \in fs.sidecars : MainPathOf(f) = path

\* C18: a sidecar task is only there with --copy-xmp, right after the main-file
\* task it is derived from: its source is that task's source plus ".xmp", which
\* exists, and its destination that task's destination plus ".xmp"; a main file
\* without sidecar, or any main file without --copy-xmp, is followed by no
\* sidecar task, and the assembly goes on.
C18_SidecarDerived ==
    \A i \in 1..Len(copy_tasks) :
        IF IsSidecarTask(copy_tasks[i])
        THEN /\ args.copy_xmp
             /\ i > 1
             /\ ~IsSidecarTask(copy_tasks[i - 1])
             /\ copy_tasks[i][1] = copy_tasks[i - 1][1] \o ".xmp"
             /\ copy_tasks[i][2] = copy_tasks[i - 1][2] \o ".xmp"
             /\ SidecarExists(copy_tasks[i - 1][1])
        ELSE (~args.copy_xmp \/ ~SidecarExists(copy_tasks[i][1])) =>
                 (i < Len(copy_tasks) => ~IsSidecarTask(copy_tasks[i + 1]))

\* --copy-xmp with two main files, of which one has a sidecar: three tasks
C18_Witness ==
    /\ pc = "pool" /\ args.copy_xmp
    /\ Len(copy_tasks) = 3
    /\ \E i \in 1..3 : IsSidecarTask(copy_tasks[i])
    /\ \E f \in fs.files : ~SidecarExists(MainPathOf(f))

\* C19: when the with block has been left and the summary is produced, every
\* assembled task is finished and has its one result counted; when an exception
\* leaves the block no task is pending or running either.
C19_AllTasksAccounted ==
    /\ (pc = "summary" \/ (pc = "done" /\ exit_code = 0)) =>
          /\ \A i \in 1..Len(task_state) : task_state[i] = "done"
          /\ copied_count = Len(copy_tasks)
          /\ submitted = Len(copy_tasks)
    /\ pc = "fault" =>
          \A i \in 1..Len(task_state) : task_state[i] \in {"done", "raised"}

\* the summary of a live run in which the first task finished after the second:
\* both wrote one destination name and the first task's source is what is left
C19_Witness ==
    /\ pc = "summary" /\ ~args.dry_run
    /\ Len(copy_tasks) = 2
    /\ copy_tasks[1][2] = copy_tasks[2][2]
    /\ <<basename(copy_tasks[1][2]), copy_tasks[1][1]>> \in dest

\* C20: a live run whose destination directory does not exist creates it and
\* ends with every matched file copied there; a dry run leaves it absent.
C20_DestDirCreated ==
    (Ended /\ ~fs.dest_isdir /\ copy_tasks # <<>>) =>
        IF args.dry_run
        THEN dest = {}
        ELSE /\ pc = "done"
             /\ \A i \in 1..Len(copy_tasks) : basename(copy_tasks[i][2]) \in DestNames(dest)

\* the main-file tasks of the list, in list order
MainTasks == SelectSeq(copy_tasks, LAMBDA t : ~IsSidecarTask(t))

\* the main-file tasks whose destination filename is not the source's own
RenamedTasks == SelectSeq(MainTasks, LAMBDA t : basename(t[2]) # basename(t[1]))

\* C22: the rename records are, in order, one (requested name, final name) per
\* main-file task whose final destination filename differs from its source's
\* filename, and none else; as long as no copy has started, the requested name of
\* every record exists in the destination directory and the name of every
\* main-file task without record does not.
C22_RenameRecordIffCollision ==
    LET renamed == RenamedTasks
        main == MainTasks
        taken == DestNames(dest)
    IN  /\ Len(renamed_files) = Len(renamed)
        /\ \A i \in 1..Len(renamed) :
               renamed_files[i] = <<basename(renamed[i][1]), basename(renamed[i][2])>>
        /\ Started = {} =>
               \A i \in 1..Len(main) :
                   LET requested == basename(main[i][1])
                   IN  (basename(main[i][2]) # requested) <=> (requested \in taken)

\* the list is assembled, nothing is copied yet: one main file was renamed, for
\* the name it asked for is taken, and another kept its name
C22_Witness ==
    /\ pc = "pool" /\ Started = {}
    /\ renamed_files = << <<"IMG_0002.jpg", "IMG_0002_1.jpg">> >>
    /\ Len(MainTasks) = 2
    /\ "IMG_0002.jpg" \in DestNames(dest)

\* C24: no copy task, of a main file or of a sidecar, has a destination that
\* exists in the destination directory when the list is assembled and before
\* any copy starts, so a live run overwrites nothing that was there before it.
C24_NoExistingTarget ==
    Started = {} =>
        \A i \in 1..Len(copy_tasks) : basename(copy_tasks[i][2]) \notin DestNames(dest)

\* C25: a sidecar task comes right after its main-file task and its destination
\* is that task's destination plus ".xmp"; when the main file was renamed, the
\* sidecar's name is the numbered name stem_k.ext plus ".xmp".
C25_SidecarFollowsResolvedName ==
    \A i \in 1..Len(copy_tasks) :
        IsSidecarTask(copy_tasks[i]) =>
            /\ i > 1
            /\ ~IsSidecarTask(copy_tasks[i - 1])
            /\ copy_tasks[i][1] = copy_tasks[i - 1][1] \o ".xmp"
            /\ copy_tasks[i][2] = copy_tasks[i - 1][2] \o ".xmp"
            /\ LET requested == basename(copy_tasks[i - 1][1])
                   sidecar == basename(copy_tasks[i][2])
               IN  basename(copy_tasks[i - 1][2]) # requested =>
                       \E k \in 1..(Cardinality(dest) + Len(copy_tasks) + 1) :
                           sidecar = Numbered(requested, k) \o ".xmp"

\* IMG_0002.jpg is taken: the main file goes to IMG_0002_1.jpg and its sidecar,
\* the next task, to IMG_0002_1.jpg.xmp
C25_Witness ==
    /\ pc = "pool"
    /\ \E i \in 2..Len(copy_tasks) :
          /\ copy_tasks[i - 1][2] = "/copies/originals/IMG_0002_1.jpg"
          /\ copy_tasks[i][2] = "/copies/originals/IMG_0002_1.jpg.xmp"

(***************************************************************************)
(* SpecMove: move_jpegs.py, one call of move_jpegs_from_negatives(root_dir) *)
(***************************************************************************)

\* the entry names of the model's folders: two the code takes for JPEGs, one
\* whose extension has another case, one that is no picture
MoveNames == {"a.jpg", "b.JPEG", "c.Jpg", "notes.txt"}

\* the list of find_jpegs_in_directory
jpeg_extensions == {".jpg", ".JPG", ".jpeg", ".JPEG"}

\* filename.endswith(ext)
EndsWith(s, ext) == Len(ext) <= Len(s) /\ SubSeq(s, Len(s) - Len(ext) + 1, Len(s)) = ext

\* a regular file of a folder; origin records the folder the file was in at
\* the start of the call
FileEntry(name, origin) == [name |-> name, kind |-> "file", origin |-> origin, inside |-> {}]

\* a subdirectory of a folder, holding the files named in inside
DirEntry(name, origin, inside) ==
    [name |-> name, kind |-> "dir", origin |-> origin, inside |-> inside]


\* the names of the regular files of a folder whose name ends with one of the
\* four extensions, case as listed
find_jpegs_in_directory(folder) ==
    {e.name : e \in {x \in folder : /\ x.kind = "file"
                                     /\ \E ext \in jpeg_extensions : EndsWith(x.name, ext)}}

\* {os.path.basename(f) for f in filepaths}: the model names files by basename
get_jpeg_filenames(filepaths) == filepaths

\* list(a set), in some order
SetToSeq(S) ==
    CHOOSE f \in [1..Cardinality(S) -> S] : \A i, j \in 1..Cardinality(S) : i # j => f[i] # f[j]

\* os.remove(root_dir/filename) of a regular file
os_remove(folder, filename) == {e \in folder : e.name # filename}

\* shutil.move(negatives_dir/filename, root_dir/filename) raises shutil.Error:
\* the destination is a directory that already holds an entry of that name
move_raises(root, filename) ==
    \E e \in root : /\ e.name = filename /\ e.kind = "dir"
                    /\ \E f \in e.inside : f[1] = filename

\* root_dir after shutil.move(negatives_dir/filename, root_dir/filename): a
\* destination that is a directory receives the file inside it, any other is
\* replaced by the file (os.rename)
move_into(root, filename) ==
    IF \E e \in root : e.name = filename /\ e.kind = "dir"
    THEN {IF e.name = filename
          THEN DirEntry(e.name, e.origin, e.inside \cup {<<filename, "negatives">>})
          ELSE e : e \in root}
    ELSE {e \in root : e.name # filename} \cup {FileEntry(filename, "negatives")}

\* the folders with at most n entries of distinct names, each of a listed kind
Folders(shapes, n) ==
    {F \in SUBSET shapes :
        /\ Cardinality(F) <= n
        /\ \A a, b \in F : a.name = b.name => a = b}

\* what root_dir may hold next to negatives: files, empty directories, and
\* directories holding a file of their own name
RootShapes ==
    UNION {{FileEntry(n, "root"), DirEntry(n, "root", {}), DirEntry(n, "root", {<<n, "root">>})} :
              n \in MoveNames}

\* what negatives may hold: files and empty directories
NegativesShapes ==
    UNION {{FileEntry(n, "negatives"), DirEntry(n, "negatives", {})} : n \in MoveNames}

MoveInit ==
    /\ MatchIdle /\ DateIdle /\ DestIdle /\ ScanIdle /\ MainIdle /\ RescanIdle
    /\ v_pc = "ready"
    /\ v_DRY_RUN \in BOOLEAN
    /\ v_negatives_isdir \in BOOLEAN
    /\ v_root \in Folders(RootShapes, MaxRootEntries)
    /\ v_negatives \in IF v_negatives_isdir THEN Folders(NegativesShapes, MaxNegativesEntries)
                                            ELSE {{}}
    /\ v_negatives_filenames = {}
    /\ v_to_delete = <<>>
    /\ v_to_move = {}
    /\ v_result = "None"

\* lines 72-77: no negatives subfolder, return False
NoNegativesDir ==
    /\ v_pc = "ready"
    /\ ~v_negatives_isdir
    /\ v_pc' = "returned"
    /\ v_result' = "False"
    /\ UNCHANGED <<v_DRY_RUN, v_negatives_isdir, v_root, v_negatives,
                   v_negatives_filenames, v_to_delete, v_to_move>>
    /\ UNCHANGED <<matchVars, dateVars, destVars, scanVars, rescanVars, mainVars>>

\* lines 82-91: the subfolder holds no JPEG, return True
NoJpegs ==
    /\ v_pc = "ready"
    /\ v_negatives_isdir
    /\ find_jpegs_in_directory(v_negatives) = {}
    /\ v_pc' = "returned"
    /\ v_result' = "True"
    /\ UNCHANGED <<v_DRY_RUN, v_negatives_isdir, v_root, v_negatives,
                   v_negatives_filenames, v_to_delete, v_to_move>>
    /\ UNCHANGED <<matchVars, dateVars, destVars, scanVars, rescanVars, mainVars>>

\* lines 82-105: list both folders; files_to_delete is what root has and
\* negatives has not, visited in sorted order
PlanSync ==
    /\ v_pc = "ready"
    /\ v_negatives_isdir
    /\ LET negatives_jpegs == find_jpegs_in_directory(v_negatives)
           negatives_filenames == get_jpeg_filenames(negatives_jpegs)
           root_filenames == get_jpeg_filenames(find_jpegs_in_directory(v_root))
           files_to_delete == root_filenames \ negatives_filenames
       IN  /\ negatives_jpegs # {}
           /\ v_negatives_filenames' = negatives_filenames
           /\ v_to_delete' = sorted(SetToSeq(files_to_delete))
           /\ v_to_move' = negatives_jpegs
           /\ v_pc' = IF files_to_delete = {} THEN "moving" ELSE "deleting"
    /\ UNCHANGED <<v_DRY_RUN, v_negatives_isdir, v_root, v_negatives, v_result>>
    /\ UNCHANGED <<matchVars, dateVars, destVars, scanVars, rescanVars, mainVars>>

\* lines 105-112: one pass of the delete loop
DeleteOne ==
    /\ v_pc = "deleting"
    /\ v_to_delete # <<>>
    /\ v_root' = IF v_DRY_RUN THEN v_root ELSE os_remove(v_root, Head(v_to_delete))
    /\ v_to_delete' = Tail(v_to_delete)
    /\ v_pc' = IF Tail(v_to_delete) = <<>> THEN "moving" ELSE "deleting"
    /\ UNCHANGED <<v_DRY_RUN, v_negatives_isdir, v_negatives, v_negatives_filenames,
                   v_to_move, v_result>>
    /\ UNCHANGED <<matchVars, dateVars, destVars, scanVars, rescanVars, mainVars>>

\* lines 123-135: one pass of the move loop, over negatives_jpegs in the order
\* os.listdir gave; after the last one the call returns True. A shutil.move
\* that raises ends the call with the exception.
MoveOne ==
    /\ v_pc = "moving"
    /\ \E filename \in v_to_move :
          IF ~v_DRY_RUN /\ move_raises(v_root, filename)
          THEN /\ v_pc' = "raised"
               /\ UNCHANGED <<v_root, v_negatives, v_to_move, v_result>>
          ELSE /\ v_root' = IF v_DRY_RUN THEN v_root ELSE move_into(v_root, filename)
               /\ v_negatives' = IF v_DRY_RUN THEN v_negatives
                                 ELSE os_remove(v_negatives, filename)
               /\ v_to_move' = v_to_move \ {filename}
               /\ v_pc' = IF v_to_move = {filename} THEN "returned" ELSE "moving"
               /\ v_result' = IF v_to_move = {filename} THEN "True" ELSE v_result
    /\ UNCHANGED <<v_DRY_RUN, v_negatives_isdir, v_negatives_filenames, v_to_delete>>
    /\ UNCHANGED <<matchVars, dateVars, destVars, scanVars, rescanVars, mainVars>>

MoveNext == NoNegativesDir \/ NoJpegs \/ PlanSync \/ DeleteOne \/ MoveOne

SpecMove == MoveInit /\ [][MoveNext]_vars

\* the call changes nothing in either folder
FoldersUntouched == UNCHANGED <<v_root, v_negatives>>

\* the call has nothing to do: DRY_RUN, no negatives subfolder, or no JPEG in it
NothingToSync ==
    \/ v_DRY_RUN
    \/ ~v_negatives_isdir
    \/ v_pc = "returned" /\ v_negatives_filenames = {}
    \/ v_pc = "ready" /\ find_jpegs_in_directory(v_negatives) = {}

\* C27: after a live call on a negatives subfolder that held at least one JPEG,
\* the JPEG files directly in root are exactly those that were in negatives
\* before the call, each of them the file that came from negatives, and
\* negatives holds no JPEG; a call with DRY_RUN set, without a negatives
\* subfolder or without a JPEG in it deletes and moves nothing.
C27_RootMirrorsNegatives ==
    /\ [](v_pc \in {"returned", "raised"} /\ ~NothingToSync =>
             /\ v_pc = "returned"
             /\ find_jpegs_in_directory(v_root) = v_negatives_filenames
             /\ \A e \in v_root :
                   e.kind = "file" /\ e.name \in v_negatives_filenames => e.origin = "negatives"
             /\ find_jpegs_in_directory(v_negatives) = {})
    /\ [][NothingToSync => FoldersUntouched]_vars

====
